---------------------------- MODULE Spec2Model ----------------------------
(***************************************************************************)
(* A model of token-monitor: the pricing table and cost estimator          *)
(* (pricing.py), the usage ledger (history.py) and the daily report        *)
(* scheduler (cron_report.py).                                             *)
(*                                                                         *)
(* Conventions of the model                                                *)
(*   - a calendar day is an integer; the ISO strings the code compares    *)
(*     (YYYY-MM-DD) order exactly as the days they denote;                 *)
(*   - an Optional[date] is a sequence of length 0 (None) or 1;            *)
(*   - a Python dict with string keys is a TLA+ function on strings        *)
(*     (a record); an insertion-ordered dict whose order matters for the   *)
(*     iteration is a sequence of <<key, value>> pairs with distinct keys; *)
(*   - a price is an integer number of 1/10000 USD per million tokens, an  *)
(*     amount of money is exact: [units, frac] stands for                  *)
(*     units * 10^-4 USD + frac * 10^-10 USD with 0 <= frac < 10^6.  The   *)
(*     code computes the same quantities in IEEE doubles; the model keeps  *)
(*     the real-number value and rounds half to even where the code calls  *)
(*     round(x, 4).                                                        *)
(***************************************************************************)
EXTENDS Integers, Sequences, FiniteSets, TLC

VARIABLES
    eval,       \* the last evaluation of a function that writes nothing: name, inputs, result
    ledger,     \* the committed rows of table daily_stats
    txn,        \* the save_snapshot call in progress on the ledger (stepwise view)
    call,       \* the last completed save_snapshot call and what it did
    today,      \* the calendar day the system clock shows
    last_sent,  \* the content of last_sent.json: <<>> (no file) or <<day>>
    delivered,  \* history: per day, the number of reports the transport accepted
    run         \* the last command of cron_report.main and what it did

vars == <<eval, ledger, txn, call, today, last_sent, delivered, run>>

---------------------------------------------------------------------------
(* Bounds of the model *)

\* token counts are drawn from 0..MaxSmallTokens and k * TokenUnit, k <= MaxTokenUnits
TokenUnit == 500000
MaxTokenUnits == 2
MaxSmallTokens == 2
\* the pure evaluation of check_missed_days takes days 1..MaxPureDay
MaxPureDay == 12
\* save_snapshot is called with dates 1..MaxDate
MaxDate == 2
\* the scheduler's clock runs over days 1..MaxDay
MaxDay == 4
\* the per-day delivery counter saturates here
MaxCount == 2
\* the trend is computed over days 1..MaxTrendDay
MaxTrendDay == 16
\* the token counts of the readings the trend is computed from are multiples of this
TrendTokens == 1000

---------------------------------------------------------------------------
(* Strings: str.lower() and the substring test `sub in s` *)

UpperChars == "ABCDEFGHIJKLMNOPQRSTUVWXYZ"
LowerChars == "abcdefghijklmnopqrstuvwxyz"

\* the lower-case letter of each upper-case letter
LowerOf ==
    [c \in {SubSeq(UpperChars, i, i) : i \in 1..Len(UpperChars)} |->
        LET i == CHOOSE j \in 1..Len(UpperChars) : SubSeq(UpperChars, j, j) = c
        IN  SubSeq(LowerChars, i, i)]

LowerChar(c) == IF c \in DOMAIN LowerOf THEN LowerOf[c] ELSE c

RECURSIVE lower(_)
lower(s) ==
    IF Len(s) = 0 THEN ""
    ELSE LowerChar(SubSeq(s, 1, 1)) \o lower(SubSeq(s, 2, Len(s)))

\* Python's `sub in s` for strings
Contains(sub, s) ==
    \E i \in 1..(Len(s) - Len(sub) + 1) : SubSeq(s, i, i + Len(sub) - 1) = sub

\* dict.get(key, default)
Get(d, key, default) == IF key \in DOMAIN d THEN d[key] ELSE default

Min(a, b) == IF a <= b THEN a ELSE b

---------------------------------------------------------------------------
(* Money: exact amounts, [units |-> 10^-4 USD, frac |-> 10^-10 USD] *)

MILLION == 1000000

Zero == [units |-> 0, frac |-> 0]

AddMoney(a, b) ==
    LET f == a.frac + b.frac
    IN  [units |-> a.units + b.units + (f \div MILLION), frac |-> f % MILLION]

\* a charge per started thousand of tokens
TokenCostPerK(tokens, price) ==
    LET hi == ((tokens + 999) \div 1000) * price      \* in 10^-7 USD
    IN  [units |-> hi \div 1000, frac |-> (hi % 1000) * 1000]

\* (tokens / 1_000_000) * price, price in 10^-4 USD per million tokens
TokenCost(tokens, price) ==
    LET hi == (tokens \div 1000) * price      \* in 10^-7 USD
        lo == (tokens % 1000) * price         \* in 10^-10 USD
        f  == (hi % 1000) * 1000 + (lo % MILLION)
    IN  [units |-> (hi \div 1000) + (lo \div MILLION) + (f \div MILLION),
         frac  |-> f % MILLION]

\* round(cost, 4): to the nearest 10^-4 USD, a tie to the even neighbour
Round4(m) ==
    LET half == MILLION \div 2
        up   == m.frac > half \/ (m.frac = half /\ m.units % 2 = 1)
    IN  [units |-> IF up THEN m.units + 1 ELSE m.units, frac |-> 0]

---------------------------------------------------------------------------
(* pricing.py *)

\* MODEL_PRICING, USD per million tokens, here in 10^-4 USD
Price(i, o, cr, cw) == [input |-> i, output |-> o, cache_read |-> cr, cache_write |-> cw]

MODEL_PRICING ==
    [k \in {"claude-opus-4-5-20250514", "claude-opus-4-5-20251101",
            "claude-sonnet-4-5-20250514", "claude-sonnet-4-5-20241022",
            "claude-haiku-4-5-20250514", "gemini-3-pro", "gemini-3-flash",
            "gemini-2.0-flash", "gemini-2.0-flash-exp", "gpt-5", "gpt-4o",
            "gpt-4o-mini", "deepseek-chat", "deepseek-reasoner"} |->
        CASE k = "claude-opus-4-5-20250514"   -> Price(150000, 750000, 15000, 187500)
          [] k = "claude-opus-4-5-20251101"   -> Price(150000, 750000, 15000, 187500)
          [] k = "claude-sonnet-4-5-20250514" -> Price(30000, 150000, 3000, 37500)
          [] k = "claude-sonnet-4-5-20241022" -> Price(30000, 150000, 3000, 37500)
          [] k = "claude-haiku-4-5-20250514"  -> Price(8000, 40000, 800, 10000)
          [] k = "gemini-3-pro"               -> Price(12500, 100000, 1250, 12500)
          [] k = "gemini-3-flash"             -> Price(750, 3000, 75, 750)
          [] k = "gemini-2.0-flash"           -> Price(750, 3000, 75, 750)
          [] k = "gemini-2.0-flash-exp"       -> Price(750, 3000, 75, 750)
          [] k = "gpt-5"                      -> Price(50000, 150000, 5000, 50000)
          [] k = "gpt-4o"                     -> Price(25000, 100000, 2500, 25000)
          [] k = "gpt-4o-mini"                -> Price(1500, 6000, 150, 1500)
          [] k = "deepseek-chat"              -> Price(2700, 11000, 270, 2700)
          [] k = "deepseek-reasoner"          -> Price(5500, 21900, 550, 5500)]

MODEL_ALIASES ==
    [k \in {"opus", "sonnet", "haiku", "gemini-pro", "gemini-flash"} |->
        CASE k = "opus"         -> "claude-opus-4-5-20250514"
          [] k = "sonnet"       -> "claude-sonnet-4-5-20250514"
          [] k = "haiku"        -> "claude-haiku-4-5-20250514"
          [] k = "gemini-pro"   -> "gemini-3-pro"
          [] k = "gemini-flash" -> "gemini-3-flash"]

\* keyword rules whose fallback returns the lower-cased name
NormalizeTailLower(model, model_lower) ==
    IF Contains("gpt-5", model_lower) THEN "gpt-5"
    ELSE IF Contains("gpt-4o-mini", model_lower) THEN "gpt-4o-mini"
    ELSE IF Contains("gpt-4o", model_lower) THEN "gpt-4o"
    ELSE IF Contains("deepseek", model_lower)
         THEN IF Contains("reasoner", model_lower) \/ Contains("r1", model_lower)
              THEN "deepseek-reasoner"
              ELSE "deepseek-chat"
    ELSE model_lower

\* the keyword rules of normalize_model_name below the `gemini` block
NormalizeTail(model, model_lower) ==
    IF Contains("gpt-5", model_lower) THEN "gpt-5"
    ELSE IF Contains("gpt-4o-mini", model_lower) THEN "gpt-4o-mini"
    ELSE IF Contains("gpt-4o", model_lower) THEN "gpt-4o"
    ELSE IF Contains("deepseek", model_lower)
         THEN IF Contains("reasoner", model_lower) \/ Contains("r1", model_lower)
              THEN "deepseek-reasoner"
              ELSE "deepseek-chat"
    ELSE model

normalize_model_name(model) ==
    LET model_lower == lower(model)
    IN  IF model_lower \in DOMAIN MODEL_ALIASES THEN MODEL_ALIASES[model_lower]
        ELSE IF Contains("opus", model_lower)
             THEN IF Contains("20251101", model)
                  THEN "claude-opus-4-5-20251101"
                  ELSE "claude-opus-4-5-20250514"
        ELSE IF Contains("sonnet", model_lower)
             THEN IF Contains("20241022", model)
                  THEN "claude-sonnet-4-5-20241022"
                  ELSE "claude-sonnet-4-5-20250514"
        ELSE IF Contains("haiku", model_lower) THEN "claude-haiku-4-5-20250514"
        ELSE IF Contains("gemini", model_lower) /\ Contains("pro", model_lower)
             THEN "gemini-3-pro"
        ELSE IF Contains("gemini", model_lower) /\ Contains("flash", model_lower)
             THEN "gemini-3-flash"
        ELSE NormalizeTail(model, model_lower)

\* Python's None, and the `not pricing` test of estimate_cost
None == [none |-> TRUE]

\* a lookup that falls back to a default entry instead of None
get_model_pricing_default(model) ==
    LET normalized == normalize_model_name(model)
    IN  IF normalized \in DOMAIN MODEL_PRICING
        THEN MODEL_PRICING[normalized]
        ELSE MODEL_PRICING["claude-sonnet-4-5-20250514"]

get_model_pricing(model) ==
    LET normalized == normalize_model_name(model)
    IN  IF normalized \in DOMAIN MODEL_PRICING THEN MODEL_PRICING[normalized] ELSE None

\* the result of a call: the value returned, or the exception raised
Returned(v) == [raised |-> "", value |-> v]
Raised(e) == [raised |-> e, value |-> Zero]

estimate_cost(model, input_tokens, output_tokens, cache_read, cache_write) ==
    LET pricing == get_model_pricing(model)
    IN  IF pricing = None \/ DOMAIN pricing = {} THEN Returned(Zero)
        ELSE IF ~ ({"input", "output"} \subseteq DOMAIN pricing) THEN Raised("KeyError")
        ELSE Returned(
               AddMoney(AddMoney(AddMoney(
                   TokenCost(input_tokens, pricing["input"]),
                   TokenCost(output_tokens, pricing["output"])),
                   TokenCost(cache_read, Get(pricing, "cache_read", 0))),
                   TokenCost(cache_write, Get(pricing, "cache_write", 0))))


---------------------------------------------------------------------------
(* history.py: the cost the ledger stores *)

\* the `pricing` dict of estimate_claude_cost
CLAUDE_PRICING ==
    [k \in {"claude-sonnet-4-20250514", "claude-opus-4-5-20251101",
            "claude-3-5-sonnet-20241022", "claude-3-opus-20240229"} |->
        CASE k = "claude-sonnet-4-20250514"   -> Price(30000, 150000, 3000, 37500)
          [] k = "claude-opus-4-5-20251101"   -> Price(150000, 750000, 15000, 187500)
          [] k = "claude-3-5-sonnet-20241022" -> Price(30000, 150000, 3000, 37500)
          [] k = "claude-3-opus-20240229"     -> Price(150000, 750000, 15000, 187500)]

estimate_claude_cost(model, input_tokens, output_tokens, cache_read, cache_write) ==
    LET prices == Get(CLAUDE_PRICING, model, CLAUDE_PRICING["claude-sonnet-4-20250514"])
    IN  Round4(AddMoney(AddMoney(AddMoney(
            TokenCost(input_tokens, prices["input"]),
            TokenCost(output_tokens, prices["output"])),
            TokenCost(cache_read, prices["cache_read"])),
            TokenCost(cache_write, prices["cache_write"])))

\* <<input_price, output_price>> of estimate_moltbot_cost
MoltbotPrices(model) ==
    LET model_lower == lower(model)
    IN  IF Contains("gpt-3.5", model_lower) THEN <<5000, 15000>>
        ELSE IF Contains("gpt-4o", model_lower) THEN <<25000, 100000>>
        ELSE IF Contains("claude", model_lower) THEN <<30000, 150000>>
        ELSE <<100000, 300000>>

estimate_moltbot_cost(model, input_tokens, output_tokens) ==
    LET p == MoltbotPrices(model)
    IN  Round4(AddMoney(TokenCost(input_tokens, p[1]), TokenCost(output_tokens, p[2])))


---------------------------------------------------------------------------
(* history.py: table daily_stats and save_snapshot *)

EmptyDict == [k \in {} |-> 0]

\* one row of daily_stats (the surrogate id and created_at are left out:
\* no statement of the program reads or updates them)
Row(date, source, model, input_tokens, output_tokens, cache_read, cache_write, sessions, cost_estimate) ==
    [date |-> date, source |-> source, model |-> model,
     input_tokens |-> input_tokens, output_tokens |-> output_tokens,
     cache_read |-> cache_read, cache_write |-> cache_write,
     sessions |-> sessions, cost_estimate |-> cost_estimate]

\* UNIQUE(date, source, model)
SameKey(x, r) == x.date = r.date /\ x.source = r.source /\ x.model = r.model

\* the columns each statement's DO UPDATE SET clause assigns
ClaudeCols == {"input_tokens", "output_tokens", "cache_read", "cache_write",
               "sessions", "cost_estimate"}
MoltbotCols == {"input_tokens", "output_tokens", "sessions", "cost_estimate"}

\* an INSERT into a table without the uniqueness constraint
InsertRow(table, r, cols) == table \cup {r}

\* an upsert that accumulates: DO UPDATE SET col = col + excluded.col
UpsertRowAdd(table, r, cols) ==
    IF \E x \in table : SameKey(x, r)
    THEN { IF SameKey(x, r)
           THEN [f \in DOMAIN x |->
                    IF f \in cols \ {"cost_estimate"} THEN x[f] + r[f]
                    ELSE IF f \in cols THEN r[f] ELSE x[f]]
           ELSE x : x \in table }
    ELSE table \cup {r}

\* an upsert whose DO UPDATE SET clause leaves out sessions and cost_estimate
UpsertRowTokensOnly(table, r, cols) ==
    IF \E x \in table : SameKey(x, r)
    THEN { IF SameKey(x, r)
           THEN [f \in DOMAIN x |->
                    IF f \in cols \ {"sessions", "cost_estimate"} THEN r[f] ELSE x[f]]
           ELSE x : x \in table }
    ELSE table \cup {r}

\* INSERT ... ON CONFLICT(date, source, model) DO UPDATE SET col = excluded.col
UpsertRow(table, r, cols) ==
    IF \E x \in table : SameKey(x, r)
    THEN { IF SameKey(x, r)
           THEN [f \in DOMAIN x |-> IF f \in cols THEN r[f] ELSE x[f]]
           ELSE x : x \in table }
    ELSE table \cup {r}

\* the statements of the first loop of save_snapshot, in the dict's order
ClaudeStatements(claude_stats, date) ==
    LET models   == Get(claude_stats, "models", <<>>)
        sessions == Get(claude_stats, "total_sessions", 0)
    IN  [i \in 1..Len(models) |->
            LET model         == models[i][1]
                usage         == models[i][2]
                input_tokens  == Get(usage, "input", 0)
                output_tokens == Get(usage, "output", 0)
                cache_read    == Get(usage, "cache_read", 0)
                cache_write   == Get(usage, "cache_write", 0)
                cost == estimate_claude_cost(model, input_tokens, output_tokens,
                                             cache_read, cache_write)
            IN  [row  |-> Row(date, "claude", model, input_tokens, output_tokens,
                              cache_read, cache_write, sessions, cost),
                 cols |-> ClaudeCols]]

\* the statements of the second loop
MoltbotStatements(moltbot_stats, date) ==
    LET by_model == Get(moltbot_stats, "by_model", <<>>)
    IN  [i \in 1..Len(by_model) |->
            LET model_key     == by_model[i][1]
                usage         == by_model[i][2]
                input_tokens  == Get(usage, "input", 0)
                output_tokens == Get(usage, "output", 0)
                sessions      == Get(usage, "sessions", 0)
                cost == estimate_moltbot_cost(model_key, input_tokens, output_tokens)
            IN  [row  |-> Row(date, "moltbot", model_key, input_tokens, output_tokens,
                              0, 0, sessions, cost),
                 cols |-> MoltbotCols]]

Statements(claude_stats, moltbot_stats, date) ==
    ClaudeStatements(claude_stats, date) \o MoltbotStatements(moltbot_stats, date)

\* conn.execute of one statement
Execute(table, st) == UpsertRow(table, st.row, st.cols)

RECURSIVE RunStatements(_, _)
RunStatements(table, stmts) ==
    IF Len(stmts) = 0 THEN table
    ELSE RunStatements(Execute(table, Head(stmts)), Tail(stmts))

\* a call that first clears the day it writes: DELETE FROM daily_stats WHERE date = ?
save_snapshot_replace_day(table, claude_stats, moltbot_stats, date) ==
    LET stmts == Statements(claude_stats, moltbot_stats, date)
    IN  [ledger |-> RunStatements({r \in table : r.date # date}, stmts),
         count  |-> Len(stmts)]

\* a whole call that reaches conn.commit(): the table committed and the count returned
save_snapshot(table, claude_stats, moltbot_stats, date) ==
    LET stmts == Statements(claude_stats, moltbot_stats, date)
    IN  [ledger |-> RunStatements(table, stmts), count |-> Len(stmts)]

---------------------------------------------------------------------------
(* history.py: get_trend *)
(* A column a query may return NULL for is a sequence: <<>> is NULL (None in *)
(* the dict), <<v>> the value v.  A quotient the code computes in floating  *)
(* point is kept exact as [num, den] with den > 0; round() is to the        *)
(* nearest, a tie to the even neighbour.                                    *)

\* WHERE date >= ? with the bound taken exclusively
RowsAfter(table, lo) == {r \in table : r.date > lo}

\* WHERE date >= ?
RowsFrom(table, lo) == {r \in table : r.date >= lo}

\* WHERE date >= ? AND date < ?
RowsBetween(table, lo, hi) == {r \in table : r.date >= lo /\ r.date < hi}

\* WHERE date = ?
RowsOn(table, day) == {r \in table : r.date = day}

\* the sum of an integer column over rows
RECURSIVE SumInt(_, _)
SumInt(rows, col) ==
    IF rows = {} THEN 0
    ELSE LET r == CHOOSE x \in rows : TRUE
         IN  r[col] + SumInt(rows \ {r}, col)

\* the sum of cost_estimate over rows
RECURSIVE SumCost(_)
SumCost(rows) ==
    IF rows = {} THEN Zero
    ELSE LET r == CHOOSE x \in rows : TRUE
         IN  AddMoney(r.cost_estimate, SumCost(rows \ {r}))

\* COUNT(*) as days
CountRows(rows) == Cardinality(rows)

\* COUNT(DISTINCT date) as days
CountDays(rows) == Cardinality({r.date : r \in rows})

\* the one row of SELECT SUM(..), .., COUNT(DISTINCT date): SUM is NULL over no rows
Aggregate(rows) ==
    [input       |-> IF rows = {} THEN <<>> ELSE <<SumInt(rows, "input_tokens")>>,
     output      |-> IF rows = {} THEN <<>> ELSE <<SumInt(rows, "output_tokens")>>,
     cache_read  |-> IF rows = {} THEN <<>> ELSE <<SumInt(rows, "cache_read")>>,
     cache_write |-> IF rows = {} THEN <<>> ELSE <<SumInt(rows, "cache_write")>>,
     cost        |-> IF rows = {} THEN <<>> ELSE <<SumCost(rows)>>,
     days        |-> CountDays(rows)]

\* `x or 0`, `x or 1`
OrElse(x, default) == IF x = <<>> THEN default ELSE x[1]
NonZeroOr(n, default) == IF n = 0 THEN default ELSE n

\* a stored cost in 10^-4 USD: both estimators of history.py return round(cost, 4)
Units(m) == m.units

\* a / b
Ratio(a, b) == [num |-> a, den |-> b]

\* round(num / den) for den > 0
RoundDiv(num, den) ==
    LET q == num \div den
        r == num % den
    IN  IF 2 * r > den \/ (2 * r = den /\ q % 2 = 1) THEN q + 1 ELSE q

\* a change that reports 0 whenever there is no baseline
PercentChangeNoBaseline(prev, cur) ==
    IF prev > 0 THEN Ratio((cur - prev) * 100, prev) ELSE Ratio(0, 1)

\* lines 299-302 and 307-310: the change from prev to cur in percent
PercentChange(prev, cur) ==
    IF prev > 0 THEN Ratio((cur - prev) * 100, prev)
    ELSE IF cur = 0 THEN Ratio(0, 1) ELSE Ratio(100, 1)

\* the local variables of get_trend before the return, now being datetime.now()
TrendLocals(table, now) ==
    LET week_ago        == now - 7
        two_weeks_ago   == now - 14
        this_week       == Aggregate(RowsFrom(table, week_ago))
        last_week       == Aggregate(RowsBetween(table, two_weeks_ago, week_ago))
        today_data      == Aggregate(RowsOn(table, now))
        this_week_days  == NonZeroOr(this_week.days, 1)
        last_week_days  == NonZeroOr(last_week.days, 1)
        this_week_total == OrElse(this_week.input, 0) + OrElse(this_week.output, 0)
        last_week_total == OrElse(last_week.input, 0) + OrElse(last_week.output, 0)
        this_week_cost  == Units(OrElse(this_week.cost, Zero))
        last_week_cost  == Units(OrElse(last_week.cost, Zero))
    IN  [this_week        |-> this_week,
         last_week        |-> last_week,
         today_data       |-> today_data,
         this_week_days   |-> this_week_days,
         last_week_days   |-> last_week_days,
         daily_avg_input  |-> Ratio(OrElse(this_week.input, 0), this_week_days),
         daily_avg_output |-> Ratio(OrElse(this_week.output, 0), this_week_days),
         daily_avg_cost   |-> Ratio(this_week_cost, this_week_days),
         this_week_total  |-> this_week_total,
         last_week_total  |-> last_week_total,
         week_over_week   |-> PercentChange(last_week_total, this_week_total),
         this_week_cost   |-> this_week_cost,
         last_week_cost   |-> last_week_cost,
         cost_wow         |-> PercentChange(last_week_cost, this_week_cost)]

\* the dict get_trend returns: costs in 10^-4 USD, percentages in 1/100 percent
get_trend(table, now) ==
    LET l == TrendLocals(table, now)
    IN  [today |->
             [input  |-> OrElse(l.today_data.input, 0),
              output |-> OrElse(l.today_data.output, 0),
              cost   |-> Units(OrElse(l.today_data.cost, Zero))],
         this_week |->
             [input  |-> OrElse(l.this_week.input, 0),
              output |-> OrElse(l.this_week.output, 0),
              cost   |-> l.this_week_cost,
              days   |-> l.this_week_days],
         last_week |->
             [input  |-> OrElse(l.last_week.input, 0),
              output |-> OrElse(l.last_week.output, 0),
              cost   |-> l.last_week_cost,
              days   |-> l.last_week_days],
         daily_average |->
             [input  |-> RoundDiv(l.daily_avg_input.num, l.daily_avg_input.den),
              output |-> RoundDiv(l.daily_avg_output.num, l.daily_avg_output.den),
              cost   |-> RoundDiv(l.daily_avg_cost.num, l.daily_avg_cost.den)],
         week_over_week |->
             [tokens_change_percent |->
                  RoundDiv(l.week_over_week.num * 100, l.week_over_week.den),
              cost_change_percent |->
                  RoundDiv(l.cost_wow.num * 100, l.cost_wow.den)]]

---------------------------------------------------------------------------
(* token_monitor.py: what the two live sources can read *)

\* one entry of result["models"] of get_claude_code_stats
ClaudeUsage(i, o, cr, cw) ==
    [input |-> i, output |-> o, cache_read |-> cr, cache_write |-> cw,
     total |-> i + o + cr + cw]

\* one entry of by_provider of get_moltbot_stats
MoltbotUsage(i, o, n) == [input |-> i, output |-> o, sessions |-> n]

\* results of get_claude_code_stats: {} when the stats file cannot be loaded
ClaudeSample1 ==
    [total_sessions |-> 1, total_messages |-> 3,
     models |-> << <<"claude-opus-4-5-20251101",
                     ClaudeUsage(2 * TokenUnit, TokenUnit, 2 * TokenUnit, TokenUnit)>> >>]

ClaudeSample2 ==
    [total_sessions |-> 2, total_messages |-> 5,
     models |-> << <<"claude-opus-4-5-20251101",
                     ClaudeUsage(TokenUnit, 2 * TokenUnit, TokenUnit, 1)>>,
                   <<"unknown-model",
                     ClaudeUsage(2 * TokenUnit, TokenUnit, 0, 0)>> >>]

\* results of get_moltbot_stats: {} when the sessions file cannot be loaded
MoltbotSample1 ==
    [session_count |-> 1, total_input |-> 2 * TokenUnit, total_output |-> TokenUnit,
     by_model |-> << <<"openai/gpt-4o", MoltbotUsage(2 * TokenUnit, TokenUnit, 1)>> >>]

MoltbotSample2 ==
    [session_count |-> 2, total_input |-> TokenUnit, total_output |-> 2 * TokenUnit,
     by_model |-> << <<"openai/gpt-4o", MoltbotUsage(TokenUnit, 2 * TokenUnit, 2)>> >>]

\* what the two sources yield together when a snapshot is taken: nothing,
\* Claude alone, or both at an earlier and at a later time of the day
Readings ==
    { <<EmptyDict, EmptyDict>>, <<ClaudeSample1, EmptyDict>>,
      <<ClaudeSample1, MoltbotSample1>>, <<ClaudeSample2, MoltbotSample2>> }

Dates == 1..MaxDate

\* what the sources yield on each day of the trend's calendar, in turn: one
\* Claude model; two Claude models and one Moltbot model; nothing (neither
\* file can be loaded); Moltbot alone
TrendClaude(day) ==
    CASE day % 4 = 1 ->
           [total_sessions |-> 1, total_messages |-> 2,
            models |-> << <<"claude-opus-4-5-20251101",
                            ClaudeUsage(2 * TrendTokens, TrendTokens, 0, 0)>> >>]
      [] day % 4 = 2 ->
           [total_sessions |-> 2, total_messages |-> 4,
            models |-> << <<"claude-opus-4-5-20251101",
                            ClaudeUsage(TrendTokens, TrendTokens, TrendTokens, 0)>>,
                          <<"claude-sonnet-4-20250514",
                            ClaudeUsage(3 * TrendTokens, TrendTokens, 0, TrendTokens)>> >>]
      [] OTHER -> EmptyDict

TrendMoltbot(day) ==
    CASE day % 4 = 2 ->
           [session_count |-> 1, total_input |-> TrendTokens, total_output |-> TrendTokens,
            by_model |-> << <<"openai/gpt-4o", MoltbotUsage(TrendTokens, TrendTokens, 1)>> >>]
      [] day % 4 = 0 ->
           [session_count |-> 3, total_input |-> 4 * TrendTokens,
            total_output |-> 2 * TrendTokens,
            by_model |-> << <<"openai/gpt-4", MoltbotUsage(4 * TrendTokens,
                                                           2 * TrendTokens, 3)>> >>]
      [] OTHER -> EmptyDict


---------------------------------------------------------------------------
(* cron_report.py: the missed-day computation *)

\* `if len(missed) >= 3`
CatchUpCap == 3

\* a loop that tests the cap one entry too late
RECURSIVE MissedLoopCapLate(_, _, _)
MissedLoopCapLate(current, day, missed) ==
    IF current < day
    THEN LET next == current + 1
             m    == Append(missed, next)
         IN  IF Len(m) > CatchUpCap THEN m ELSE MissedLoopCapLate(next, day, m)
    ELSE missed

\* a computation that keeps the most recent days instead of the oldest
MissedLoopRecent(current, day, missed) ==
    LET n == Min(CatchUpCap, day - current)
    IN  [i \in 1..n |-> day - n + i]

\* the while loop of check_missed_days
RECURSIVE MissedLoop(_, _, _)
MissedLoop(current, day, missed) ==
    IF current < day
    THEN LET next == current + 1
             m    == Append(missed, next)
         IN  IF Len(m) >= CatchUpCap THEN m ELSE MissedLoop(next, day, m)
    ELSE missed

\* a computation that ignores the persisted date
check_missed_days_today(last, day) == <<day>>

\* a computation that finds nothing to send on the first run
check_missed_days_first_empty(last, day) ==
    IF last = <<>> THEN <<>>
    ELSE IF last[1] >= day THEN <<>>
    ELSE MissedLoop(last[1], day, <<>>)

\* a computation that takes a persisted date in the future for no date at all
check_missed_days_future_resets(last, day) ==
    IF last = <<>> THEN <<day>>
    ELSE IF last[1] > day THEN <<day>>
    ELSE IF last[1] = day THEN <<>>
    ELSE MissedLoop(last[1], day, <<>>)

\* check_missed_days, with get_last_sent_date() = last and date.today() = day
check_missed_days(last, day) ==
    IF last = <<>> THEN <<day>>
    ELSE IF last[1] >= day THEN <<>>
    ELSE MissedLoop(last[1], day, <<>>)

---------------------------------------------------------------------------
(* Initial state: an empty database, no last_sent.json, day 1 *)

Days == 1..MaxDay

NoEval == [f |-> "none", args |-> <<>>, done |-> TRUE, result |-> <<>>]
NoTxn  == [active |-> FALSE, date |-> 0, todo |-> <<>>, image |-> {}, count |-> 0,
           updated |-> 0]
NoCall == [status |-> "none", date |-> 0, claude |-> EmptyDict, moltbot |-> EmptyDict,
           count |-> 0, updated |-> 0, noop |-> FALSE, changed |-> 0]
NoRun  == [cmd |-> "none", status |-> "none", last_before |-> <<>>, day_check |-> 0,
           missed |-> <<>>, ingest |-> "none", stmts |-> 0, ledger_changed |-> FALSE,
           attempts |-> 0, transport |-> 0, sent |-> FALSE, day_end |-> 0,
           after_failed |-> FALSE]

Init ==
    /\ eval = NoEval
    /\ ledger = {}
    /\ txn = NoTxn
    /\ call = NoCall
    /\ today = 1
    /\ last_sent = <<>>
    /\ delivered = [d \in Days |-> 0]
    /\ run = NoRun

---------------------------------------------------------------------------
(* SpecPure: the pure functions, evaluated on inputs drawn from bounded sets *)

PureDays == 1..MaxPureDay
OptPureDays == {<<>>} \cup {<<d>> : d \in PureDays}

TokenCounts == (0..MaxSmallTokens) \cup {k * TokenUnit : k \in 1..MaxTokenUnits}

ModelNames ==
    {"claude-opus-4-5-20251101", "claude-3-opus-20240229", "Opus",
     "claude-sonnet-4-20250514", "claude-3-5-sonnet-20241022", "sonnet",
     "claude-3-haiku", "gemini-pro", "gemini-2.0-flash-exp", "gemini-ultra",
     "GPT-5", "gpt-4o-mini", "openai/gpt-4o", "gpt-4", "gpt-3.5-turbo",
     "deepseek-r1", "deepseek-v3", "unknown-model", "unknown/unknown",
     "llama-3-70b"}

\* the names normalize_model_name is asked about: those above, canonical
\* names, aliases in other cases, and names that carry several keywords
NormalizeNames ==
    ModelNames \cup
    {"HAIKU", "Gemini-Flash", "Gemini-1.5-Pro", "gemini-pro-flash",
     "gemini-exp-1206", "gemini-gpt-4o-router", "Gemini-DeepSeek-R1",
     "claude-opus-4-5-20250514", "claude-sonnet-4-5-20250514",
     "Claude-Sonnet-4-5-20241022", "claude-haiku-4-5-20250514",
     "sonnet-opus-20251101", "claude-haiku-sonnet", "opus-20241022",
     "gemini-3-pro", "gemini-3-flash", "gemini-2.0-flash",
     "gpt-5", "gpt-5-mini", "gpt-4o", "gpt-4o-2024-08-06", "gpt-4o-mini-deepseek",
     "deepseek-chat", "deepseek-reasoner", "DeepSeek-R1", "deepseek-gpt-5",
     "Llama-3-70B", "GPT-3.5-Turbo"}

\* the evaluations asked for: the function and its arguments, not yet applied
Pending(f, args) == [f |-> f, args |-> args, done |-> FALSE, result |-> <<>>]

\* the evaluations asked for are drawn from the bounded sets of arguments
InitPure ==
    /\ \/ \E last \in OptPureDays, day \in PureDays :
              eval = Pending("check_missed_days", <<last, day>>)
       \/ \E f \in {"estimate_cost", "estimate_claude_cost"}, model \in ModelNames,
             i \in TokenCounts, o \in TokenCounts,
             cr \in TokenCounts, cw \in TokenCounts :
              eval = Pending(f, <<model, i, o, cr, cw>>)
       \/ \E model \in NormalizeNames :
              eval = Pending("normalize_model_name", <<model>>)
    /\ ledger = {}
    /\ txn = NoTxn
    /\ call = NoCall
    /\ today = 1
    /\ last_sent = <<>>
    /\ delivered = [d \in Days |-> 0]
    /\ run = NoRun

EvalCheckMissed ==
    /\ eval.f = "check_missed_days" /\ ~ eval.done
    /\ eval' = [eval EXCEPT !.done = TRUE,
                            !.result = check_missed_days(eval.args[1], eval.args[2])]
    /\ UNCHANGED <<ledger, txn, call, today, last_sent, delivered, run>>

EvalEstimateCost ==
    /\ eval.f = "estimate_cost" /\ ~ eval.done
    /\ eval' = [eval EXCEPT !.done = TRUE,
                            !.result = estimate_cost(eval.args[1], eval.args[2],
                                           eval.args[3], eval.args[4], eval.args[5])]
    /\ UNCHANGED <<ledger, txn, call, today, last_sent, delivered, run>>

\* the estimator of history.py, which returns a plain float
EvalEstimateClaudeCost ==
    /\ eval.f = "estimate_claude_cost" /\ ~ eval.done
    /\ eval' = [eval EXCEPT !.done = TRUE,
                            !.result = Returned(estimate_claude_cost(eval.args[1],
                                           eval.args[2], eval.args[3], eval.args[4],
                                           eval.args[5]))]
    /\ UNCHANGED <<ledger, txn, call, today, last_sent, delivered, run>>

EvalNormalize ==
    /\ eval.f = "normalize_model_name" /\ ~ eval.done
    /\ eval' = [eval EXCEPT !.done = TRUE,
                            !.result = normalize_model_name(eval.args[1])]
    /\ UNCHANGED <<ledger, txn, call, today, last_sent, delivered, run>>

NextPure ==
    \/ EvalCheckMissed
    \/ EvalEstimateCost
    \/ EvalEstimateClaudeCost
    \/ EvalNormalize

SpecPure == InitPure /\ [][NextPure]_vars

---------------------------------------------------------------------------
(* SpecTrend: a snapshot is taken on some days and not on others, and the  *)
(* trend is asked for at any time                                          *)

\* save_snapshot(claude_stats, moltbot_stats): the date defaults to today
TrendSnapshot ==
    /\ ledger' = save_snapshot(ledger, TrendClaude(today), TrendMoltbot(today),
                                today).ledger
    /\ ledger' # ledger
    /\ eval' = NoEval
    /\ UNCHANGED <<txn, call, today, last_sent, delivered, run>>

\* a day passes
TrendTick ==
    /\ today < MaxTrendDay
    /\ today' = today + 1
    /\ eval' = NoEval
    /\ UNCHANGED <<ledger, txn, call, last_sent, delivered, run>>

\* get_trend(): eval keeps the result while the ledger and the day it was
\* computed from stay as they are
GetTrend ==
    /\ eval' = [f |-> "get_trend", args |-> <<today>>, done |-> TRUE,
                result |-> [locals |-> TrendLocals(ledger, today),
                            value  |-> get_trend(ledger, today)]]
    /\ UNCHANGED <<ledger, txn, call, today, last_sent, delivered, run>>

NextTrend ==
    \/ TrendSnapshot
    \/ TrendTick
    \/ GetTrend

SpecTrend == Init /\ [][NextTrend]_vars

---------------------------------------------------------------------------
(* SpecIngest: save_snapshot as one call after another *)

\* the statements of a call that meet a row already stored under their key
Conflicts(table, stmts) ==
    Cardinality({i \in 1..Len(stmts) : \E x \in table : SameKey(x, stmts[i].row)})

\* the statements of a call that meet a row stored under their key with other values
Overwrites(table, stmts) ==
    Cardinality({i \in 1..Len(stmts) :
                    \E x \in table : SameKey(x, stmts[i].row) /\ x # stmts[i].row})

\* what a completed call leaves for the caller to see: its arguments, the count
\* it returned, how many of its statements met an existing row, and whether
\* the table is the same after it as before
CallRecord(status, claude_stats, moltbot_stats, date, count, updated, noop) ==
    [status |-> status, date |-> date, claude |-> claude_stats,
     moltbot |-> moltbot_stats, count |-> count, updated |-> updated, noop |-> noop,
     changed |-> 0]

\* save_snapshot(claude_stats, moltbot_stats, date) runs to its return
SaveSnapshot(claude_stats, moltbot_stats, date) ==
    LET res   == save_snapshot(ledger, claude_stats, moltbot_stats, date)
        stmts == Statements(claude_stats, moltbot_stats, date)
    IN  /\ ledger' = res.ledger
        /\ call' = [CallRecord("returned", claude_stats, moltbot_stats, date, res.count,
                               Conflicts(ledger, stmts), res.ledger = ledger)
                    EXCEPT !.changed = Overwrites(ledger, stmts)]
        /\ UNCHANGED <<eval, txn, today, last_sent, delivered, run>>

\* the database cannot be opened or written: sqlite3 raises before the commit
\* and the connection is dropped with nothing written
SaveSnapshotRaises ==
    /\ call' = [NoCall EXCEPT !.status = "raised"]
    /\ UNCHANGED <<eval, ledger, txn, today, last_sent, delivered, run>>

NextIngest ==
    \/ \E r \in Readings, d \in Dates : SaveSnapshot(r[1], r[2], d)
    \/ SaveSnapshotRaises

SpecIngest == Init /\ [][NextIngest]_vars


---------------------------------------------------------------------------
(* SpecLedger: save_snapshot statement by statement, on its own connection. *)
(* sqlite3 opens a transaction at the first INSERT; the rows it writes are *)
(* seen by other connections only after conn.commit(), and while it holds  *)
(* the write lock the INSERT of any other connection fails.                *)

\* line 62-63: conn = get_connection(); count = 0
Begin(claude_stats, moltbot_stats, date) ==
    /\ ~ txn.active
    /\ txn' = [active |-> TRUE, date |-> date,
               todo |-> Statements(claude_stats, moltbot_stats, date),
               image |-> ledger, count |-> 0, updated |-> 0]
    /\ UNCHANGED <<eval, ledger, call, today, last_sent, delivered, run>>

\* one conn.execute(...) and count += 1
ExecuteNext ==
    /\ txn.active
    /\ Len(txn.todo) > 0
    /\ txn' = [txn EXCEPT
                 !.image = Execute(txn.image, Head(txn.todo)),
                 !.todo = Tail(txn.todo),
                 !.count = txn.count + 1,
                 !.updated = txn.updated + Conflicts(txn.image, <<Head(txn.todo)>>)]
    /\ UNCHANGED <<eval, ledger, call, today, last_sent, delivered, run>>

\* line 116-118: conn.commit(); conn.close(); return count
Commit ==
    /\ txn.active
    /\ Len(txn.todo) = 0
    /\ ledger' = txn.image
    /\ txn' = NoTxn
    /\ call' = [NoCall EXCEPT !.status = "returned", !.count = txn.count]
    /\ UNCHANGED <<eval, today, last_sent, delivered, run>>

\* a store without the transaction, the cost column written after the counts:
\* a stop leaves the counts of the statements executed with the costs of before
AbortTorn ==
    /\ txn.active
    /\ txn' = NoTxn
    /\ call' = [NoCall EXCEPT !.status = "raised", !.count = txn.count,
                              !.updated = txn.updated]
    /\ ledger' = { IF \E o \in ledger : SameKey(o, x)
                   THEN [x EXCEPT !.cost_estimate =
                            (CHOOSE o \in ledger : SameKey(o, x)).cost_estimate]
                   ELSE x : x \in txn.image }
    /\ UNCHANGED <<eval, today, last_sent, delivered, run>>

\* the process stops or a statement raises before the commit: the connection
\* is dropped and sqlite rolls the open transaction back; call keeps how many
\* statements had been executed, and how many of them had met a stored row
Abort ==
    /\ txn.active
    /\ txn' = NoTxn
    /\ call' = [NoCall EXCEPT !.status = "raised", !.count = txn.count,
                              !.updated = txn.updated]
    /\ UNCHANGED <<eval, ledger, today, last_sent, delivered, run>>

\* another call's first INSERT while this one holds the write lock:
\* sqlite3.OperationalError (database is locked), nothing written
Busy ==
    /\ txn.active
    /\ txn.count > 0
    /\ call' = [NoCall EXCEPT !.status = "locked"]
    /\ UNCHANGED <<eval, ledger, txn, today, last_sent, delivered, run>>

NextLedger ==
    \/ \E r \in Readings, d \in Dates : Begin(r[1], r[2], d)
    \/ ExecuteNext
    \/ Commit
    \/ Abort
    \/ Busy

SpecLedger == Init /\ [][NextLedger]_vars

---------------------------------------------------------------------------
(* SpecSched: the commands of cron_report.main, one invocation after another *)

\* a run that never takes the early return
GateNever(missed) == FALSE

\* `if not missed: ... return` of run_daily_report
GateSkips(missed) == Len(missed) = 0

\* What a call of send_imessage meets: no destination configured (the
\* transport is not run), or the transport's exit status, its timeout, or
\* another exception of subprocess.run
Deliveries == {"exit_zero", "exit_nonzero", "timeout", "exception", "no_destination"}

\* send_imessage: False with no destination, else whether the transport exits 0;
\* a timeout or any other exception gives False
send_imessage(delivery) ==
    IF delivery = "no_destination" THEN FALSE ELSE delivery = "exit_zero"

\* the marker written whether or not the delivery succeeded
RecordAlways(last, ok, day) == <<day>>

\* a marker that a failed delivery removes
RecordOrClear(last, ok, day) == IF ok THEN <<day>> ELSE <<>>

\* `if send_imessage(report): set_last_sent_date()`: the content of
\* last_sent.json after the delivery step, day being date.today()
RecordLastSent(last, ok, day) == IF ok THEN <<day>> ELSE last

\* one delivery attempt for every missed day
DeliveryAttemptsPerMissedDay(missed) == Len(missed)

\* the calls of send_imessage in a send run that reaches step 3: the one call
\* of `if send_imessage(report)`, whatever the missed list holds
DeliveryAttempts(missed) == 1

\* whether the most recent send invocation so far made a delivery attempt
\* that failed
LastSendFailed ==
    IF run.cmd = "send" THEN run.attempts >= 1 /\ ~ run.sent ELSE run.after_failed

\* The clock is read at four places of a send run: (1) check_missed_days,
\* (2) save_snapshot, (3) the delivery, (4) set_last_sent_date.  Midnight may
\* pass once during a run: the reads numbered roll and later see the next day.
Clock(i, roll) == IF i >= roll THEN today + 1 ELSE today

Rolls == {r \in 2..5 : r <= 4 => today < MaxDay}

\* the sources the commands read when the scheduler runs
LiveClaude == {EmptyDict, ClaudeSample1}
LiveMoltbot == {EmptyDict}

\* run_daily_report(send): claude_stats and moltbot_stats are what the sources
\* yield, save_ok whether save_snapshot returns (else it raises and the
\* exception is caught), read_ok whether get_daily_summary can read the
\* ledger (else generate_report_text raises and the run ends there)
run_daily_report(cmd, send, roll, claude_stats, moltbot_stats, save_ok, read_ok, delivery) ==
    LET day_check == Clock(1, roll)
        missed    == IF send THEN check_missed_days(last_sent, day_check) ELSE <<>>
        res       == save_snapshot(ledger, claude_stats, moltbot_stats, Clock(2, roll))
        saved     == IF save_ok THEN res.ledger ELSE ledger
        ok        == send_imessage(delivery)
        base      == [NoRun EXCEPT !.cmd = cmd, !.last_before = last_sent,
                                   !.day_check = day_check, !.missed = missed,
                                   !.after_failed = LastSendFailed]
    IN  IF send /\ GateSkips(missed)
        THEN /\ run' = [base EXCEPT !.status = "skipped", !.day_end = day_check]
             /\ today' = day_check
             /\ UNCHANGED <<ledger, last_sent, delivered>>
        ELSE /\ ledger' = saved
             /\ IF ~ read_ok
                THEN /\ run' = [base EXCEPT !.status = "raised",
                                  !.ingest = IF save_ok THEN "saved" ELSE "failed",
                                  !.stmts = IF save_ok THEN res.count ELSE 0,
                                  !.ledger_changed = (saved # ledger),
                                  !.day_end = Clock(2, roll)]
                     /\ today' = Clock(2, roll)
                     /\ UNCHANGED <<last_sent, delivered>>
                ELSE IF ~ send
                THEN /\ run' = [base EXCEPT !.status = "done",
                                  !.ingest = IF save_ok THEN "saved" ELSE "failed",
                                  !.stmts = IF save_ok THEN res.count ELSE 0,
                                  !.ledger_changed = (saved # ledger),
                                  !.day_end = Clock(2, roll)]
                     /\ today' = Clock(2, roll)
                     /\ UNCHANGED <<last_sent, delivered>>
                ELSE /\ run' = [base EXCEPT !.status = "done",
                                  !.ingest = IF save_ok THEN "saved" ELSE "failed",
                                  !.stmts = IF save_ok THEN res.count ELSE 0,
                                  !.ledger_changed = (saved # ledger),
                                  !.attempts = DeliveryAttempts(missed),
                                  !.transport = IF delivery = "no_destination" THEN 0 ELSE 1,
                                  !.sent = ok,
                                  !.day_end = Clock(IF ok THEN 4 ELSE 3, roll)]
                     /\ last_sent' = RecordLastSent(last_sent, ok, Clock(4, roll))
                     /\ delivered' =
                          IF ok
                          THEN [delivered EXCEPT
                                  ![Clock(3, roll)] = Min(@ + 1, MaxCount)]
                          ELSE delivered
                     /\ today' = Clock(IF ok THEN 4 ELSE 3, roll)

\* main, cmd == "send"
CmdSend ==
    \E roll \in Rolls, cs \in LiveClaude, ms \in LiveMoltbot,
       save_ok \in BOOLEAN, read_ok \in BOOLEAN, delivery \in Deliveries :
        /\ run_daily_report("send", TRUE, roll, cs, ms, save_ok, read_ok, delivery)
        /\ UNCHANGED <<eval, txn, call>>

\* a dispatch that runs the full flow with send=True
CmdRunSends ==
    \E roll \in Rolls, cs \in LiveClaude, ms \in LiveMoltbot,
       save_ok \in BOOLEAN, read_ok \in BOOLEAN, delivery \in Deliveries :
        /\ run_daily_report("run", TRUE, roll, cs, ms, save_ok, read_ok, delivery)
        /\ UNCHANGED <<eval, txn, call>>

\* main, cmd == "all" or cmd == "run"
CmdRun ==
    \E roll \in Rolls, cs \in LiveClaude, ms \in LiveMoltbot,
       save_ok \in BOOLEAN, read_ok \in BOOLEAN :
        /\ run_daily_report("run", FALSE, roll, cs, ms, save_ok, read_ok,
                            "no_destination")
        /\ UNCHANGED <<eval, txn, call>>

\* main, cmd == "report": print(generate_report_text())
CmdReport ==
    \E read_ok \in BOOLEAN :
        /\ run' = [NoRun EXCEPT !.cmd = "report",
                                !.status = IF read_ok THEN "done" ELSE "raised",
                                !.last_before = last_sent,
                                !.day_check = today, !.day_end = today,
                                !.after_failed = LastSendFailed]
        /\ UNCHANGED <<eval, ledger, txn, call, today, last_sent, delivered>>

\* main, cmd == "snapshot": save_snapshot is not guarded, its exception ends main
CmdSnapshot ==
    \E cs \in LiveClaude, ms \in LiveMoltbot, save_ok \in BOOLEAN :
        LET res   == save_snapshot(ledger, cs, ms, today)
            saved == IF save_ok THEN res.ledger ELSE ledger
        IN  /\ ledger' = saved
            /\ run' = [NoRun EXCEPT !.cmd = "snapshot",
                                    !.status = IF save_ok THEN "done" ELSE "raised",
                                    !.last_before = last_sent,
                                    !.day_check = today, !.day_end = today,
                                    !.ingest = IF save_ok THEN "saved" ELSE "failed",
                                    !.stmts = IF save_ok THEN res.count ELSE 0,
                                    !.ledger_changed = (saved # ledger),
                                    !.after_failed = LastSendFailed]
            /\ UNCHANGED <<eval, txn, call, today, last_sent, delivered>>

\* a day passes between two invocations
Tick ==
    /\ today < MaxDay
    /\ today' = today + 1
    /\ UNCHANGED <<eval, ledger, txn, call, last_sent, delivered, run>>

NextSched ==
    \/ CmdSend
    \/ CmdRun
    \/ CmdReport
    \/ CmdSnapshot
    \/ Tick

SpecSched == Init /\ [][NextSched]_vars

---------------------------------------------------------------------------
(* SpecSkew: send invocations under a clock that may also move back *)

\* date.today() yields an earlier day than it did before (the system clock
\* or the time zone was set back between two invocations)
ClockBack ==
    /\ today > 1
    /\ today' = today - 1
    /\ UNCHANGED <<eval, ledger, txn, call, last_sent, delivered, run>>

\* main, cmd == "send", while the ledger can be written and read
SkewSend ==
    \E roll \in Rolls, cs \in LiveClaude, delivery \in Deliveries :
        /\ run_daily_report("send", TRUE, roll, cs, EmptyDict, TRUE, TRUE, delivery)
        /\ UNCHANGED <<eval, txn, call>>

NextSkew ==
    \/ SkewSend
    \/ Tick
    \/ ClockBack

SpecSkew == Init /\ [][NextSkew]_vars

---------------------------------------------------------------------------
(* Claims about the ledger *)

\* no two rows of a table share (date, source, model)
UniqueKeys(table) == \A x \in table : \A y \in table : SameKey(x, y) => x = y

\* C1: after any sequence or interleaving of save_snapshot calls, with any
\* dates, sources and model names, the ledger holds at most one record for
\* each (date, source, model) triple; so does the table an open transaction sees.
C1_OneRowPerKey == UniqueKeys(ledger) /\ (txn.active => UniqueKeys(txn.image))

\* an open transaction whose statements have met rows already stored, while
\* another call was turned away, with rows of two dates in the table
C1_Witness ==
    /\ call.status = "locked"
    /\ txn.active
    /\ txn.updated >= 2
    /\ Cardinality(txn.image) >= 3
    /\ \E x \in txn.image : \E y \in txn.image : x.date # y.date

\* C2: ingestion is idempotent: after a call has returned, the same call made
\* again (same date, same snapshots) leaves the ledger exactly as it is (same
\* rows, same token counts, sessions and cost_estimate) and returns the same
\* record count.
C2_Idempotent ==
    call.status = "returned" =>
        save_snapshot(ledger, call.claude, call.moltbot, call.date)
            = [ledger |-> ledger, count |-> call.count]

\* a call that wrote rows, all of them met by equal rows already stored:
\* the second of two identical calls
C2_Witness ==
    /\ call.status = "returned"
    /\ call.count >= 2
    /\ call.updated = call.count
    /\ call.noop

\* C10: the cost_estimate stored with a record is what the cost estimator
\* (normalize, pricing-table lookup, estimate) returns for the record's model
\* and token counts; a record of an unpriced model is stored with cost 0.
\* Stated up to the 4-decimal rounding of the stored value.
C10_StoredCostIsEstimate ==
    \A r \in ledger :
        LET est == estimate_cost(r.model, r.input_tokens, r.output_tokens,
                                 r.cache_read, r.cache_write)
        IN  est.raised = "" /\ r.cost_estimate = Round4(est.value)

\* C15: when a record already exists for (date, source, model), an upsert
\* with new values leaves under that key exactly the values newly supplied
\* (input_tokens, output_tokens, cache_read, cache_write, sessions and the
\* cost of the new counts), for both sources; a Moltbot statement supplies no
\* cache counts and its record's are 0.  No field keeps an old value that
\* differs from the new one and none is added to.
C15_UpsertOverwrites ==
    call.status = "returned" =>
        LET models   == Get(call.claude, "models", <<>>)
            by_model == Get(call.moltbot, "by_model", <<>>)
        IN  /\ \A i \in 1..Len(models) :
                   LET usage == models[i][2]
                   IN  \E x \in ledger :
                          /\ x.date = call.date /\ x.source = "claude"
                          /\ x.model = models[i][1]
                          /\ x.input_tokens = usage.input
                          /\ x.output_tokens = usage.output
                          /\ x.cache_read = usage.cache_read
                          /\ x.cache_write = usage.cache_write
                          /\ x.sessions = call.claude.total_sessions
                          /\ x.cost_estimate =
                                estimate_claude_cost(x.model, usage.input, usage.output,
                                                     usage.cache_read, usage.cache_write)
            /\ \A i \in 1..Len(by_model) :
                   LET usage == by_model[i][2]
                   IN  \E x \in ledger :
                          /\ x.date = call.date /\ x.source = "moltbot"
                          /\ x.model = by_model[i][1]
                          /\ x.input_tokens = usage.input
                          /\ x.output_tokens = usage.output
                          /\ x.cache_read = 0
                          /\ x.cache_write = 0
                          /\ x.sessions = usage.sessions
                          /\ x.cost_estimate =
                                estimate_moltbot_cost(x.model, usage.input, usage.output)

\* a call whose statements, of both sources, each met a record holding other values
C15_Witness ==
    /\ call.status = "returned"
    /\ Get(call.claude, "models", <<>>) # <<>>
    /\ Get(call.moltbot, "by_model", <<>>) # <<>>
    /\ call.changed = call.count

\* the model names a call supplies for a source
Supplied(c, source) ==
    LET entries == IF source = "claude" THEN Get(c.claude, "models", <<>>)
                   ELSE Get(c.moltbot, "by_model", <<>>)
    IN  {entries[i][1] : i \in 1..Len(entries)}

\* C16: no step deletes a ledger record: every key of the ledger is a key of
\* the ledger after the step, and a record that a step changes or adds is one
\* of a save_snapshot call that returned, of that call's date and of a model
\* the call supplied for the record's source; every other record, also of
\* that date, is left as it is.
C16_NoDeletion ==
    [][ /\ \A r \in ledger : \E x \in ledger' : SameKey(r, x)
        /\ \A r \in (ledger \ ledger') \cup (ledger' \ ledger) :
               /\ call'.status = "returned"
               /\ r.date = call'.date
               /\ r.model \in Supplied(call', r.source) ]_vars

\* a call that changed a record while the ledger holds a record of the same
\* date and source for a model the call did not supply, and records of another date
C16_Witness ==
    /\ call.status = "returned"
    /\ call.changed >= 1
    /\ \E r \in ledger : r.date = call.date /\ r.source = "claude"
                          /\ Supplied(call, "claude") # {}
                          /\ r.model \notin Supplied(call, "claude")
    /\ \E r \in ledger : r.date # call.date

\* C20: a snapshot write is atomic under a stop of the process: whatever
\* step is taken, and so when save_snapshot stops at any point before its
\* commit, every record of the ledger afterwards is entirely a record of the
\* ledger before (old) or entirely a record the call in progress writes
\* (new), never a mix of old and new fields, and no key is lost; after a
\* stop before the commit the ledger is the ledger of before the call.
C20_CrashAtomic ==
    [][ /\ \A r \in ledger' :
               \/ r \in ledger
               \/ txn.active /\ r \in RunStatements(txn.image, txn.todo)
        /\ \A r \in ledger : \E x \in ledger' : SameKey(r, x)
        /\ (txn.active /\ ~ txn'.active /\ call'.status = "raised") =>
               ledger' = ledger ]_vars

\* a call stopped after statements that had met stored records, with
\* statements left to execute
C20_Witness ==
    /\ call.status = "raised"
    /\ ~ txn.active
    /\ call.count >= 2
    /\ call.updated >= 1
    /\ ledger # {}


---------------------------------------------------------------------------
(* Claims about the scheduler *)

\* C3: over any sequence of send invocations, each delivery succeeding or
\* failing, at most one report is successfully delivered on any calendar day.
C3_AtMostOneSendPerDay == \A d \in Days : delivered[d] <= 1

\* reports were delivered on two days, and a later send of the same day was
\* evaluated and skipped
C3_Witness ==
    /\ Cardinality({d \in Days : delivered[d] = 1}) >= 2
    /\ run.cmd = "send"
    /\ run.status = "skipped"
    /\ delivered[run.day_check] = 1

\* C4: when last_sent equals today, a send evaluation is a no-op: zero ledger
\* writes, zero delivery attempts, last_sent unchanged.
C4_SameDayNoOp ==
    (run.cmd = "send" /\ run.last_before = <<run.day_check>>) =>
        /\ run.status = "skipped"
        /\ run.ingest = "none"
        /\ run.stmts = 0
        /\ ~ run.ledger_changed
        /\ run.attempts = 0
        /\ run.transport = 0
        /\ last_sent = run.last_before

\* a send evaluated on the day of the last successful send, with rows in the ledger
C4_Witness ==
    /\ run.cmd = "send"
    /\ run.last_before = <<run.day_check>>
    /\ delivered[run.day_check] = 1
    /\ ledger # {}

\* C5: last_sent is written only after a delivery that reported success, and
\* is then today's date (the day set_last_sent_date reads, on which the run
\* ends); when the delivery fails for any reason (non-zero exit, timeout or
\* other exception, no destination) last_sent keeps its previous value.
C5_RecordOnlyOnSuccess ==
    /\ last_sent # run.last_before => run.sent
    /\ run.sent => last_sent = <<run.day_end>>
    /\ (run.attempts = 1 /\ ~ run.sent) => last_sent = run.last_before

\* a failed delivery on a later day than an earlier, successful one
C5_Witness ==
    /\ run.cmd = "send"
    /\ run.attempts = 1
    /\ ~ run.sent
    /\ run.last_before # <<>>
    /\ run.last_before[1] < run.day_check
    /\ last_sent = run.last_before

\* the original statement of C8: with no last-sent date persisted the missed
\* list is [today] and the send evaluation makes one delivery attempt
C8_FirstRunAttemptsDelivery ==
    (run.cmd = "send" /\ run.last_before = <<>>) =>
        /\ run.missed = <<run.day_check>>
        /\ run.attempts = 1

\* C8 (amended): with no last-sent date persisted the missed list is exactly
\* [today] and the send evaluation is not skipped; it makes exactly one
\* delivery attempt unless generating the report raises (the ledger cannot be
\* read), in which case the run ends with no attempt.
C8_FirstRunSendsToday ==
    (run.cmd = "send" /\ run.last_before = <<>>) =>
        /\ run.missed = <<run.day_check>>
        /\ run.status # "skipped"
        /\ run.status = "done" => run.attempts = 1
        /\ run.status = "raised" => run.attempts = 0

\* the first send run, delivered
C8_Witness ==
    /\ run.cmd = "send"
    /\ run.last_before = <<>>
    /\ run.status = "done"
    /\ run.attempts = 1
    /\ run.sent
    /\ last_sent = <<run.day_end>>

\* C14: if the ledger cannot be opened or written while a command ingests a
\* snapshot (snapshot, run/all, send), the failure aborts the command and is
\* surfaced to the caller: the command raises, and a send run whose ingestion
\* failed neither attempts a delivery nor records last_sent.
C14_IngestFailureAborts ==
    run.ingest = "failed" =>
        /\ run.status = "raised"
        /\ run.attempts = 0
        /\ ~ run.sent
        /\ last_sent = run.last_before

\* C17: only the send command can attempt a delivery or change last_sent: a
\* step of report, snapshot or run/all attempts no delivery, delivers nothing
\* and leaves last_sent as it is, and a step of report leaves the ledger as it is.
C17_OnlySendDelivers ==
    [][ run'.cmd \in {"report", "snapshot", "run"} =>
           /\ run'.attempts = 0
           /\ run'.transport = 0
           /\ delivered' = delivered
           /\ last_sent' = last_sent
           /\ run'.cmd = "report" => (ledger' = ledger /\ run'.stmts = 0) ]_vars

\* run/all on a day later than the last send, ingesting records: a send
\* would have been due, and none was attempted
C17_Witness ==
    /\ run.cmd = "run"
    /\ run.status = "done"
    /\ run.ledger_changed
    /\ run.attempts = 0
    /\ last_sent # <<>>
    /\ last_sent[1] < run.day_check


\* the original statement of C22: a send invocation makes at most one delivery
\* attempt whatever the number of missed days, and the send invocation that
\* follows a failed attempt again finds a non-empty missed list and attempts
\* delivery
C22_NextSendAttempts ==
    run.cmd = "send" =>
        /\ run.attempts <= 1 /\ run.transport <= 1
        /\ run.after_failed =>
              /\ run.missed # <<>>
              /\ run.attempts = 1

\* C22 (amended): each send invocation makes at most one delivery attempt,
\* whatever the number of missed days, and never retries; after a failed
\* attempt the next send invocation (same day or later) again evaluates to a
\* non-empty missed list and is not skipped; it attempts delivery unless
\* generating the report raises, and when its delivery succeeds a report is
\* delivered and last_sent records the day.
C22_NextSendRetries ==
    run.cmd = "send" =>
        /\ run.attempts <= 1 /\ run.transport <= 1
        /\ run.after_failed =>
              /\ run.missed # <<>>
              /\ run.status # "skipped"
              /\ run.status = "done" => run.attempts = 1
              /\ run.status = "raised" =>
                    /\ run.attempts = 0
                    /\ last_sent = run.last_before
              /\ run.sent =>
                    /\ last_sent = <<run.day_end>>
                    /\ \E d \in run.day_check..run.day_end : delivered[d] >= 1

\* a catch-up send over three missed days that follows a failed attempt and
\* is delivered
C22_Witness ==
    /\ run.cmd = "send"
    /\ run.after_failed
    /\ Len(run.missed) = 3
    /\ run.attempts = 1
    /\ run.sent
    /\ last_sent = <<run.day_end>>

\* C23: if the persisted last_sent is later than today (the clock moved
\* back), a send evaluation behaves as already sent: the missed list is empty,
\* no snapshot is ingested, no delivery is attempted and last_sent is
\* unchanged, on every invocation until today is a day after last_sent, when
\* the evaluation finds missed days again.
C23_FutureLastSentSkips ==
    (run.cmd = "send" /\ run.last_before # <<>>) =>
        /\ run.last_before[1] > run.day_check =>
              /\ run.missed = <<>>
              /\ run.status = "skipped"
              /\ run.ingest = "none"
              /\ run.stmts = 0
              /\ ~ run.ledger_changed
              /\ run.attempts = 0
              /\ run.transport = 0
              /\ last_sent = run.last_before
        /\ run.last_before[1] < run.day_check =>
              /\ run.missed # <<>>
              /\ run.status # "skipped"

\* a send evaluated two days before the persisted last_sent, rows in the ledger
C23_Witness ==
    /\ run.cmd = "send"
    /\ run.last_before # <<>>
    /\ run.last_before[1] >= run.day_check + 2
    /\ run.status = "skipped"
    /\ today = run.day_check
    /\ ledger # {}

\* C24: under a clock that never moves backwards, in every reachable state
\* last_sent is absent or a date not later than the current day, it never
\* decreases, and once set it never becomes absent again.
C24_LastSentMonotone ==
    /\ [](last_sent = <<>> \/ last_sent[1] <= today)
    /\ [][ last_sent # <<>> =>
              /\ last_sent' # <<>>
              /\ last_sent'[1] >= last_sent[1] ]_vars

\* a send recorded a later day over an earlier one, and days have passed since
C24_Witness ==
    /\ run.cmd = "send"
    /\ run.sent
    /\ run.last_before # <<>>
    /\ last_sent # <<>>
    /\ last_sent[1] > run.last_before[1]
    /\ last_sent[1] < today
---------------------------------------------------------------------------
(* Claims about the pure functions *)

\* C6: when last_sent is earlier than today, check_missed_days returns the
\* consecutive days last_sent+1, last_sent+2, ... in ascending order, each
\* after last_sent and not after today, exactly min(3, today - last_sent) of them.
C6_MissedDays ==
    (/\ eval.f = "check_missed_days" /\ eval.done
     /\ eval.args[1] # <<>>
     /\ eval.args[1][1] < eval.args[2]) =>
        LET last == eval.args[1][1]
            day  == eval.args[2]
            n    == Min(3, day - last)
        IN  /\ Len(eval.result) = n
            /\ \A i \in 1..n : eval.result[i] = last + i
            /\ \A i \in 1..n : last < eval.result[i] /\ eval.result[i] <= day

\* a gap longer than the cap, and a gap shorter than it is not needed: the
\* cap cuts the list
C6_Witness ==
    /\ eval.f = "check_missed_days" /\ eval.done
    /\ eval.args[1] # <<>>
    /\ eval.args[2] - eval.args[1][1] = 5
    /\ Len(eval.result) = 3

\* the original statement of C7: with last_sent 10 days before today the
\* result is the 3 most recent days, today-2, today-1, today
C7_MostRecentThree ==
    (/\ eval.f = "check_missed_days" /\ eval.done
     /\ eval.args[1] # <<>>
     /\ eval.args[2] - eval.args[1][1] = 10) =>
        eval.result = <<eval.args[2] - 2, eval.args[2] - 1, eval.args[2]>>

\* C7 (amended): with last_sent 10 days before today the result has exactly 3
\* entries, the 3 oldest missed days last_sent+1, last_sent+2, last_sent+3
\* (today-9, today-8, today-7).
C7_OldestThree ==
    (/\ eval.f = "check_missed_days" /\ eval.done
     /\ eval.args[1] # <<>>
     /\ eval.args[2] - eval.args[1][1] = 10) =>
        /\ Len(eval.result) = 3
        /\ eval.result = <<eval.args[2] - 9, eval.args[2] - 8, eval.args[2] - 7>>

C7_Witness ==
    /\ eval.f = "check_missed_days" /\ eval.done
    /\ eval.args[1] # <<>>
    /\ eval.args[2] - eval.args[1][1] = 10
    /\ eval.result # <<>>

\* C9: for every model name with no pricing entry after normalization and
\* all non-negative token counts, estimate_cost returns 0 and raises nothing.
C9_UnpricedCostsZero ==
    (/\ eval.f = "estimate_cost" /\ eval.done
     /\ normalize_model_name(eval.args[1]) \notin DOMAIN MODEL_PRICING) =>
        /\ eval.result.raised = ""
        /\ eval.result.value = Zero

\* an unpriced model evaluated with every token count positive
C9_Witness ==
    /\ eval.f = "estimate_cost" /\ eval.done
    /\ eval.args[1] = "gemini-ultra"
    /\ normalize_model_name(eval.args[1]) \notin DOMAIN MODEL_PRICING
    /\ \A i \in 2..5 : eval.args[i] >= TokenUnit
    /\ eval.result.raised = ""

\* the sum over the four token categories of token_count / 1,000,000 x unit
\* price, before any rounding
CategorySum(prices, args) ==
    AddMoney(AddMoney(AddMoney(
        TokenCost(args[2], prices["input"]),
        TokenCost(args[3], prices["output"])),
        TokenCost(args[4], prices["cache_read"])),
        TokenCost(args[5], prices["cache_write"]))

\* C11: for a priced model, estimate_cost returns the sum over the four token
\* categories of token_count / 1,000,000 x unit price, rounded to 4 decimal
\* places; input 1,000,000 and output 500,000 at $3/M and $15/M give 10.5000.
C11_EstimateRounded ==
    (/\ eval.f = "estimate_cost" /\ eval.done
     /\ normalize_model_name(eval.args[1]) \in DOMAIN MODEL_PRICING) =>
        LET prices == MODEL_PRICING[normalize_model_name(eval.args[1])]
        IN  /\ eval.result.raised = ""
            /\ eval.result.value = Round4(CategorySum(prices, eval.args))
            /\ (/\ eval.args[1] = "sonnet" /\ eval.args[2] = 1000000
                 /\ eval.args[3] = 500000 /\ eval.args[4] = 0 /\ eval.args[5] = 0) =>
                    eval.result.value = [units |-> 105000, frac |-> 0]

\* x and y differ by at most 10^-4 USD, the last decimal of a 4-decimal amount
Near(x, y) ==
    LET d == x.units - y.units
    IN  /\ d >= -2 /\ d <= 2
        /\ d * MILLION + (x.frac - y.frac) <= MILLION
        /\ d * MILLION + (x.frac - y.frac) >= - MILLION

\* the estimate of either estimator for the same arguments
Estimate(f, model, i, o, cr, cw) ==
    IF f = "estimate_cost" THEN estimate_cost(model, i, o, cr, cw).value
    ELSE estimate_claude_cost(model, i, o, cr, cw)

\* C18: for every priced model and all non-negative token counts, the
\* estimate is additive in the input count and in the output count: however
\* the input count is split in a1 + a2 and the output count in b1 + b2, the
\* estimate of the whole equals the estimate with a1 and b1 plus the estimate
\* of a2 and b2 alone, within 10^-4 (the rounding of the 4-decimal result);
\* for estimate_cost and for estimate_claude_cost.
C18_Additive ==
    (/\ eval.f \in {"estimate_cost", "estimate_claude_cost"} /\ eval.done
     /\ eval.f = "estimate_cost" =>
            normalize_model_name(eval.args[1]) \in DOMAIN MODEL_PRICING) =>
        \A a1 \in TokenCounts, b1 \in TokenCounts :
            (a1 <= eval.args[2] /\ b1 <= eval.args[3]) =>
                Near(eval.result.value,
                     AddMoney(Estimate(eval.f, eval.args[1], a1, b1,
                                       eval.args[4], eval.args[5]),
                              Estimate(eval.f, eval.args[1], eval.args[2] - a1,
                                       eval.args[3] - b1, 0, 0)))

\* a priced model whose input and output counts both split in two positive
\* parts, with cache counts besides
C18_Witness ==
    /\ eval.f = "estimate_cost" /\ eval.done
    /\ normalize_model_name(eval.args[1]) \in DOMAIN MODEL_PRICING
    /\ eval.args[2] = 2 * TokenUnit
    /\ eval.args[3] = 2
    /\ eval.args[4] > 0
    /\ eval.result.value # Zero

\* the family keywords, in the order the rules are tried
FamilyKeywords ==
    <<"opus", "sonnet", "haiku", "gemini", "gpt-5", "gpt-4o-mini", "gpt-4o", "deepseek">>

\* the first family keyword the lower-cased name contains, "" when it contains none
FirstFamily(name) ==
    LET hits == {i \in DOMAIN FamilyKeywords : Contains(FamilyKeywords[i], lower(name))}
    IN  IF hits = {} THEN ""
        ELSE FamilyKeywords[CHOOSE i \in hits : \A j \in hits : i <= j]

\* the canonical name of a family for a name, chosen by its distinguishing
\* token; a gemini name with neither token has no sub-variant and stays as it is
SubVariant(family, name) ==
    CASE family = "opus" ->
           IF Contains("20251101", name) THEN "claude-opus-4-5-20251101"
           ELSE "claude-opus-4-5-20250514"
      [] family = "sonnet" ->
           IF Contains("20241022", name) THEN "claude-sonnet-4-5-20241022"
           ELSE "claude-sonnet-4-5-20250514"
      [] family = "haiku" -> "claude-haiku-4-5-20250514"
      [] family = "gemini" ->
           IF Contains("pro", lower(name)) THEN "gemini-3-pro"
           ELSE IF Contains("flash", lower(name)) THEN "gemini-3-flash"
           ELSE name
      [] family = "deepseek" ->
           IF Contains("reasoner", lower(name)) \/ Contains("r1", lower(name))
           THEN "deepseek-reasoner"
           ELSE "deepseek-chat"
      [] OTHER -> family

\* C21: normalize applies its rules in strict priority order: an exact
\* case-insensitive alias match wins over any keyword match; otherwise the
\* first matching family keyword decides, with the sub-variant chosen by the
\* distinguishing token of the name (20251101 for opus, 20241022 for sonnet,
\* gpt-4o-mini before gpt-4o); a name matching no rule is returned unchanged.
C21_PriorityOrder ==
    (eval.f = "normalize_model_name" /\ eval.done) =>
        LET name   == eval.args[1]
            family == FirstFamily(name)
        IN  eval.result =
              IF lower(name) \in DOMAIN MODEL_ALIASES THEN MODEL_ALIASES[lower(name)]
              ELSE IF family = "" THEN name
              ELSE SubVariant(family, name)

\* C25: for every input name normalize_model_name returns a key of the
\* pricing table or the input name unchanged, and normalizing the returned
\* name again returns the same name.
C25_CanonicalAndIdempotent ==
    (eval.f = "normalize_model_name" /\ eval.done) =>
        /\ eval.result \in DOMAIN MODEL_PRICING \/ eval.result = eval.args[1]
        /\ normalize_model_name(eval.result) = eval.result

\* a name in capitals that no rule matches has been normalized
C25_Witness ==
    /\ eval.f = "normalize_model_name" /\ eval.done
    /\ eval.args[1] = "GPT-3.5-Turbo"
    /\ eval.result \notin DOMAIN MODEL_PRICING

---------------------------------------------------------------------------
(* Claims about the trend *)

\* the change case by case, for previous P and current C: x is the quotient
\* kept exact, h the figure returned, in 1/100 percent
ChangeIs(P, C, x, h) ==
    /\ x.den > 0
    /\ P > 0 => x.num = (C - P) * 100 /\ x.den = P /\ h = RoundDiv((C - P) * 10000, P)
    /\ (P = 0 /\ C = 0) => x.num = 0 /\ h = 0
    /\ (P = 0 /\ C > 0) => x.num = 100 /\ x.den = 1 /\ h = 10000

\* C12: the week-over-week change, for tokens and for cost alike, given
\* previous P and current C (the last-week and this-week totals returned) is
\* (C - P)/P x 100 when P > 0, 0 when P = 0 and C = 0, exactly 100 when P = 0
\* and C > 0, and always a finite number (the figure returned is it rounded
\* to 2 decimals).
C12_WeekOverWeek ==
    (eval.f = "get_trend" /\ eval.done) =>
        LET v == eval.result.value
            l == eval.result.locals
        IN  /\ ChangeIs(v.last_week.input + v.last_week.output,
                         v.this_week.input + v.this_week.output,
                         l.week_over_week, v.week_over_week.tokens_change_percent)
            /\ ChangeIs(v.last_week.cost, v.this_week.cost,
                         l.cost_wow, v.week_over_week.cost_change_percent)

\* a trend with a baseline and a decrease that is no whole percentage, the
\* token change and the cost change differing
C12_Witness ==
    /\ eval.f = "get_trend" /\ eval.done
    /\ eval.result.value.last_week.input > 0
    /\ eval.result.value.last_week.cost > 0
    /\ eval.result.locals.week_over_week.num < 0
    /\ eval.result.locals.week_over_week.num % eval.result.locals.week_over_week.den # 0
    /\ eval.result.value.week_over_week.tokens_change_percent
           # eval.result.value.week_over_week.cost_change_percent

\* the rows of the ledger from day lo on, and those before day hi among them
FromDay(lo) == {r \in ledger : r.date >= lo}
Window(lo, hi) == {r \in ledger : lo <= r.date /\ r.date < hi}

\* C13: in a trend computed for reference day T, the this-week totals sum
\* exactly the records with date >= T-7 and the last-week totals sum exactly
\* the records with T-14 <= date < T-7; no record is counted in both windows
\* (the two totals add up to the sum over the records with date >= T-14).
C13_TrendWindows ==
    (eval.f = "get_trend" /\ eval.done) =>
        LET T == eval.args[1]
            v == eval.result.value
        IN  /\ v.this_week.input  = SumInt(FromDay(T - 7), "input_tokens")
            /\ v.this_week.output = SumInt(FromDay(T - 7), "output_tokens")
            /\ v.this_week.cost   = Units(SumCost(FromDay(T - 7)))
            /\ v.last_week.input  = SumInt(Window(T - 14, T - 7), "input_tokens")
            /\ v.last_week.output = SumInt(Window(T - 14, T - 7), "output_tokens")
            /\ v.last_week.cost   = Units(SumCost(Window(T - 14, T - 7)))
            /\ v.this_week.input + v.last_week.input
                   = SumInt(FromDay(T - 14), "input_tokens")
            /\ v.this_week.output + v.last_week.output
                   = SumInt(FromDay(T - 14), "output_tokens")

\* records on both sides of each boundary: before T-14, on T-14, on T-8, on
\* T-7 and on T itself
C13_Witness ==
    /\ eval.f = "get_trend" /\ eval.done
    /\ LET T == eval.args[1]
       IN  /\ \E r \in ledger : r.date < T - 14
           /\ \E r \in ledger : r.date = T - 14
           /\ \E r \in ledger : r.date = T - 8
           /\ \E r \in ledger : r.date = T - 7
           /\ \E r \in ledger : r.date = T

\* the distinct dates with a record in the this-week window of day T, at least 1
WeekDays(T) ==
    LET n == Cardinality({r.date : r \in FromDay(T - 7)})
    IN  IF n = 0 THEN 1 ELSE n

\* C19: the daily averages are the this-week totals divided by the number of
\* distinct dates that have a record in the this-week window, the divisor
\* taken as 1 when that number is 0 (so on an empty ledger too); the figures
\* returned are the quotients rounded.
C19_DailyAverages ==
    (eval.f = "get_trend" /\ eval.done) =>
        LET T == eval.args[1]
            v == eval.result.value
            l == eval.result.locals
        IN  /\ WeekDays(T) >= 1
            /\ v.this_week.days = WeekDays(T)
            /\ l.daily_avg_input  = Ratio(v.this_week.input, WeekDays(T))
            /\ l.daily_avg_output = Ratio(v.this_week.output, WeekDays(T))
            /\ l.daily_avg_cost   = Ratio(v.this_week.cost, WeekDays(T))
            /\ v.daily_average.input  = RoundDiv(v.this_week.input, WeekDays(T))
            /\ v.daily_average.output = RoundDiv(v.this_week.output, WeekDays(T))
            /\ v.daily_average.cost   = RoundDiv(v.this_week.cost, WeekDays(T))

\* a week with more records than dates and an average that is no whole number
C19_Witness ==
    /\ eval.f = "get_trend" /\ eval.done
    /\ WeekDays(eval.args[1]) >= 3
    /\ Cardinality(FromDay(eval.args[1] - 7)) > WeekDays(eval.args[1])
    /\ eval.result.value.this_week.input % WeekDays(eval.args[1]) # 0

\* the trend of an empty ledger
C19_WitnessEmpty ==
    /\ eval.f = "get_trend" /\ eval.done
    /\ ledger = {}
    /\ eval.result.value.daily_average.input = 0

=============================================================================
